---- MODULE Spec2Model ----
(***************************************************************************)
(* Model of llama_perf.py: the Llama decoder (Attention with grouped       *)
(* key/value heads, RoPE offsets and the per-layer KV cache), the          *)
(* generator Llama.generate, the full forward pass Llama.__call__, and the *)
(* command-line driver generate(args, stats) with its statistics report.   *)
(*                                                                         *)
(* Tensors are kept symbolically.  The batch axis always has size 1 (the   *)
(* driver builds mx.array([[...]])) and is dropped; the head_dim axis is   *)
(* never split by the code and is kept as one atom.  A tensor              *)
(* [B, H, L, D] is a sequence over heads of sequences over positions; a    *)
(* tensor [B, L, D] is a sequence over positions.  Each atom is a term     *)
(* recording which projection, rotation and attention produced it, so two  *)
(* atoms are equal exactly when the code computed them the same way from   *)
(* the same token ids.                                                     *)
(***************************************************************************)
EXTENDS Integers, Sequences, FiniteSets, TLC

VARIABLES
    pc,          \* position of the script: __main__ / generate(args, stats)
    args,        \* parsed command line: prompt (as encoded ids), max_tokens, write_every, temp, seed
    config,      \* config.json as read by load_model
    model_args,  \* ModelArgs of the loaded model
    tokenizer,   \* the tokenizer model that was loaded
    key,         \* mx.random global PRNG state
    stats,       \* ModelStats: the five time stamps and the two token counts
    tokens,      \* the caller's list of yielded token ids
    skip,        \* generate(): characters already printed
    printed,     \* the suffixes written to stdout by generate(), in order
    gen,         \* the generator object of Llama.generate: position, x, temp
    cache,       \* Llama.generate local: list of per-layer (keys, values)
    y,           \* Llama.generate local: last sampled token
    hid,         \* Llama.generate local: x after self.norm, all positions of the last step
    logits,      \* Llama.generate: self.output(x[:, -1]) of the last step
    runs,        \* library caller: finished generation sessions
    fwd          \* library caller: result of the last Llama.__call__

vars == <<pc, args, config, model_args, tokenizer, key, stats, tokens, skip,
          printed, gen, cache, y, hid, logits, runs, fwd>>

-----------------------------------------------------------------------------
(* Bounds of the model *)

MaxPrompt == 2        \* longest encoded prompt (without the bos id)
MaxTokens == 3        \* largest --max-tokens, and most tokens a caller pulls
MaxWriteEvery == 2    \* largest --write-every
KeyPeriod == 2        \* size of the PRNG state space

Vocab == {0, 1}       \* token ids
VocabSize == Cardinality(Vocab)
Seeds == {0, 1}       \* --seed
Temps == {0, 1}       \* --temp: 0 is greedy, anything else samples
Layers == {1, 2}      \* n_layers
HeadConfigs == {<<1, 1>>, <<2, 1>>, <<2, 2>>, <<4, 2>>}   \* <<n_heads, n_kv_heads>>
Tokenizers == {"plain", "bytefallback"}

BosId == 1            \* tokenizer.bos_id()

RECURSIVE SeqsUpTo(_, _)
SeqsUpTo(S, n) ==
    IF n = 0 THEN {<<>>}
    ELSE LET shorter == SeqsUpTo(S, n - 1)
         IN shorter \cup {Append(s, e) : s \in {q \in shorter : Len(q) = n - 1}, e \in S}

None == [some |-> FALSE]

\* A sequence given by its elements, evaluated once.
Tup(f) == f \o <<>>

-----------------------------------------------------------------------------
(* Attention *)

\* self.wq / self.wk / self.wv followed by reshape(B, L, heads, -1).transpose(0, 2, 1, 3)
Project(w, x, heads) ==
    Tup([h \in 1..heads |-> Tup([t \in 1..Len(x) |-> [proj |-> w, head |-> h - 1, x |-> x[t]]])])

RECURSIVE Flatten(_)
Flatten(rows) == IF rows = <<>> THEN <<>> ELSE Head(rows) \o Flatten(Tail(rows))

\* a.reshape([B, heads, L, -1]) of a row-major buffer
Reshape(flat, heads, L) ==
    Tup([h \in 1..heads |-> Tup([t \in 1..L |-> flat[(h - 1) * L + t]])])

\* The mutant tiles the key/value heads instead of repeating each one in place.
repeatTiled(a, repeats, n_heads, L) ==
    Reshape(Flatten(Flatten(Tup([r \in 1..repeats |-> a]))), n_heads, L)

\* def repeat(a): concatenate [expand_dims(a, 2)] * repeats on axis 2, then reshape
repeat(a, repeats, n_heads, L) ==
    LET expanded == Tup([kv \in 1..Len(a) |-> Tup([r \in 1..repeats |-> a[kv]])])
    IN Reshape(Flatten(Flatten(expanded)), n_heads, L)

\* The mutant rotates by the position inside the step, ignoring the offset.
RoPE_callNoOffset(x, offset) ==
    Tup([h \in 1..Len(x) |-> Tup([t \in 1..Len(x[h]) |-> [v |-> x[h][t], rot |-> t - 1]])])

\* RoPE.__call__: rotate position t of the tensor by angle of position offset + t
RoPE_call(x, offset) ==
    LET L == Len(x[1])
        N == L + offset
        positions == Tup([t \in 1..(N - offset) |-> offset + t - 1])
    IN Tup([h \in 1..Len(x) |-> Tup([t \in 1..L |-> [v |-> x[h][t], rot |-> positions[t]]])])

\* The mutant masks nothing.
create_mask_open(N) ==
    [some |-> TRUE, m |-> Tup([i \in 1..N |-> Tup([j \in 1..N |-> FALSE])])]

\* nn.MultiHeadAttention.create_additive_causal_mask(N): TRUE where -1e9 is added
create_additive_causal_mask(N) ==
    [some |-> TRUE, m |-> Tup([i \in 1..N |-> Tup([j \in 1..N |-> i < j])])]

\* softmax(scores) @ values for one query row: the keys whose score got the
\* mask's large negative value have weight 0 and do not contribute
RECURSIVE Weighted(_, _, _, _)
Weighted(row, keys, values, j) ==
    IF j > Len(keys) THEN <<>>
    ELSE (IF row[j] THEN <<>> ELSE <<[k |-> keys[j], v |-> values[j]]>>)
         \o Weighted(row, keys, values, j + 1)

\* The mutant keeps only the new step's keys and values.
ConcatCacheDropped(old, new) == new

\* mx.concatenate([key_cache, keys], axis=2)
ConcatCache(old, new) == Tup([h \in 1..Len(new) |-> old[h] \o new[h]])

\* The mutant keeps the un-repeated key/value heads in the cache entry and
\* repeats them only for the scores.
Attention_callStoreKv(x, mask, c, margs) ==
    LET L == Len(x)
        repeats == margs.n_heads \div margs.n_kv_heads
        queries0 == Project("wq", x, margs.n_heads)
        keys0 == Project("wk", x, margs.n_kv_heads)
        values0 == Project("wv", x, margs.n_kv_heads)
        offset == IF c.some THEN Len(c.keys[1]) ELSE 0
        queries == RoPE_call(queries0, offset)
        keys == IF c.some THEN ConcatCache(c.keys, RoPE_call(keys0, offset))
                ELSE RoPE_call(keys0, offset)
        values == IF c.some THEN ConcatCache(c.values, values0) ELSE values0
        T == Len(keys[1])
        keysR == repeat(keys, repeats, margs.n_heads, T)
        valuesR == repeat(values, repeats, margs.n_heads, T)
        masked == Tup([i \in 1..L |-> Tup([j \in 1..T |->
                      IF mask.some THEN mask.m[i][j] ELSE FALSE])])
        output == Tup([i \in 1..L |-> Tup([h \in 1..margs.n_heads |->
                      [q |-> queries[h][i],
                       kv |-> Weighted(masked[i], keysR[h], valuesR[h], 1)]])])
    IN [out |-> output, cache |-> [some |-> TRUE, keys |-> keys, values |-> values]]

\* Attention.__call__(x, mask, cache) -> (self.wo(output), (keys, values))
Attention_call(x, mask, c, margs) ==
    LET L == Len(x)
        repeats == margs.n_heads \div margs.n_kv_heads
        queries0 == Project("wq", x, margs.n_heads)
        keys0 == repeat(Project("wk", x, margs.n_kv_heads), repeats, margs.n_heads, L)
        values0 == repeat(Project("wv", x, margs.n_kv_heads), repeats, margs.n_heads, L)
        offset == IF c.some THEN Len(c.keys[1]) ELSE 0
        queries == RoPE_call(queries0, offset)
        keys == IF c.some THEN ConcatCache(c.keys, RoPE_call(keys0, offset))
                ELSE RoPE_call(keys0, offset)
        values == IF c.some THEN ConcatCache(c.values, values0) ELSE values0
        masked == Tup([i \in 1..L |-> Tup([j \in 1..Len(keys[1]) |->
                      IF mask.some THEN mask.m[i][j] ELSE FALSE])])
        output == Tup([i \in 1..L |-> Tup([h \in 1..margs.n_heads |->
                      [q |-> queries[h][i],
                       kv |-> Weighted(masked[i], keys[h], values[h], 1)]])])
    IN [out |-> output, cache |-> [some |-> TRUE, keys |-> keys, values |-> values]]

\* TransformerBlock.__call__: h = x + attention(norm(x)); out = h + ffn(norm(h)).
\* The norms, the feed-forward and the residual sums act on one position at a time.
TransformerBlock_call(x, mask, c, margs) ==
    LET a == Attention_call(x, mask, c, margs)
    IN [out |-> Tup([t \in 1..Len(x) |-> [x |-> x[t], r |-> a.out[t]]]), cache |-> a.cache]

\* self.tok_embeddings(x)
tok_embeddings(x) == Tup([t \in 1..Len(x) |-> [tok |-> x[t]]])

-----------------------------------------------------------------------------
(* Llama *)

\* for l in self.layers: x, _ = l(x, mask)
RECURSIVE ForwardLayers(_, _, _, _)
ForwardLayers(x, mask, i, margs) ==
    IF i > margs.n_layers THEN x
    ELSE ForwardLayers(TransformerBlock_call(x, mask, None, margs).out, mask, i + 1, margs)

\* for l in self.layers: x, c = l(x, mask=mask); cache.append(c)
RECURSIVE PromptLayers(_, _, _, _, _)
PromptLayers(x, mask, c, i, margs) ==
    IF i > margs.n_layers THEN [x |-> x, cache |-> c]
    ELSE LET b == TransformerBlock_call(x, mask, None, margs)
         IN PromptLayers(b.out, mask, Append(c, b.cache), i + 1, margs)

\* for i in range(len(cache)): x, cache[i] = self.layers[i](x, mask=None, cache=cache[i])
RECURSIVE DecodeLayers(_, _, _, _)
DecodeLayers(x, c, i, margs) ==
    IF i > Len(c) THEN [x |-> x, cache |-> c]
    ELSE LET b == TransformerBlock_call(x, None, c[i], margs)
         IN DecodeLayers(b.out, [c EXCEPT ![i] = b.cache], i + 1, margs)

\* The fixed weights of the model: a number for every activation term.
RECURSIVE Activation(_)
RECURSIVE SumKV(_, _)
RECURSIVE SumHeads(_, _)
SumKV(kv, j) ==
    IF j > Len(kv) THEN 0
    ELSE (kv[j].k.rot + kv[j].k.v.head + 1) * Activation(kv[j].v.x) + SumKV(kv, j + 1)
SumHeads(r, h) ==
    IF h > Len(r) THEN 0 ELSE (r[h].q.rot + 1) * SumKV(r[h].kv, 1) + SumHeads(r, h + 1)
Activation(t) ==
    IF "tok" \in DOMAIN t THEN t.tok + 1
    ELSE Activation(t.x) + SumHeads(t.r, 1)

\* self.output(x): one logit per vocabulary entry
output(x) == [v \in Vocab |-> (Activation(x) * (v + 2)) % (VocabSize + 3)]

\* mx.argmax(logits, axis=-1): the first index holding the maximum
ArgMax(l) ==
    CHOOSE v \in DOMAIN l : \A w \in DOMAIN l : l[v] > l[w] \/ (l[v] = l[w] /\ v <= w)

\* mx.random.categorical(logits): arg-max of the logits plus noise drawn from the key
categorical(l, k) == ArgMax([v \in DOMAIN l |-> l[v] + 2 * ((k + v) % 2)])

\* The mutant samples from the PRNG whatever the temperature.
sampleAlwaysRandom(l, temp, k) == categorical(l, k)

\* def sample(logits)
sample(l, temp, k) == IF temp = 0 THEN ArgMax(l) ELSE categorical(l, k)

\* the PRNG state after one sample(): only categorical() draws from it
KeyAfterSample(temp, k) == IF temp = 0 THEN k ELSE (k + 1) % KeyPeriod

\* Llama.__call__(x): the final hidden state and the logits of every position
Llama_call(x, margs) ==
    LET mask == create_additive_causal_mask(Len(x))
        h == ForwardLayers(tok_embeddings(x), mask, 1, margs)
    IN Tup([t \in 1..Len(x) |-> [hid |-> h[t], logits |-> output(h[t])]])

\* Llama.generate up to its first yield
generate_prompt(x, temp, k, margs) ==
    LET mask == create_additive_causal_mask(Len(x))
        r == PromptLayers(tok_embeddings(x), mask, <<>>, 1, margs)
        l == output(r.x[Len(r.x)])
    IN [cache |-> r.cache, hid |-> r.x, logits |-> l, y |-> sample(l, temp, k)]

\* The mutant feeds the step the token and the bos id again.
DecodeInputTwo(tok) == <<BosId, tok>>

\* x = y[:, None]
DecodeInput(tok) == <<tok>>

\* Llama.generate: one pass of the while True loop, to the next yield
generate_step(tok, temp, k, c, margs) ==
    LET r == DecodeLayers(tok_embeddings(DecodeInput(tok)), c, 1, margs)
        l == output(r.x[Len(r.x)])
    IN [cache |-> r.cache, hid |-> r.x, logits |-> l, y |-> sample(l, temp, k)]

-----------------------------------------------------------------------------
(* Tokenizer (SentencePiece, loaded from tokenizer.model) *)

Piece(id) == <<"a", "b", "c", "d">>[id + 1]

\* With byte fallback, id 0 and id 1 are the two bytes of one character: the pair
\* decodes to that character, a byte without its partner to U+FFFD ("?").
RECURSIVE DecodeBytes(_)
DecodeBytes(ids) ==
    IF ids = <<>> THEN <<>>
    ELSE IF Len(ids) >= 2 /\ ids[1] = 0 /\ ids[2] = 1
         THEN <<"e">> \o DecodeBytes(SubSeq(ids, 3, Len(ids)))
    ELSE IF ids[1] \in {0, 1} THEN <<"?">> \o DecodeBytes(Tail(ids))
    ELSE <<Piece(ids[1])>> \o DecodeBytes(Tail(ids))

\* tokenizer.decode(ids) -> text, a sequence of characters
decode(tk, ids) ==
    IF tk = "plain" THEN Tup([i \in 1..Len(ids) |-> Piece(ids[i])]) ELSE DecodeBytes(ids)

\* s[skip:]
Slice(s, from) == SubSeq(s, from + 1, Len(s))

-----------------------------------------------------------------------------
(* load_model *)

\* sanitize_config: n_kv_heads defaults to n_heads
sanitize_config(cfg) ==
    [n_layers |-> cfg.n_layers, n_heads |-> cfg.n_heads,
     n_kv_heads |-> IF "n_kv_heads" \in DOMAIN cfg THEN cfg.n_kv_heads ELSE cfg.n_heads]

ConfigsFull ==
    {[n_layers |-> n, n_heads |-> hc[1], n_kv_heads |-> hc[2]] : n \in Layers, hc \in HeadConfigs}

\* the model directories the script is run on: one config.json that names
\* n_kv_heads and one that leaves it to sanitize_config
ScriptConfigs == {[n_layers |-> 2, n_heads |-> 2, n_kv_heads |-> 1]}
ScriptConfigsNoKv == {[n_layers |-> 1, n_heads |-> 2]}

\* time.time(): a reading is never earlier than the reading before it, and may
\* be the same value
Later(t) == {t, t + 1}

-----------------------------------------------------------------------------
(* The script: __main__ and generate(args, stats) *)

NoGenerator == [pc |-> "none", x |-> <<>>, temp |-> 0]
NoRun == [some |-> FALSE, x |-> <<>>, tokens |-> <<>>]
NoForward == [some |-> FALSE, x |-> <<>>, out |-> <<>>]

Idle ==
    /\ tokens = <<>> /\ skip = 0 /\ printed = <<>>
    /\ stats = [start_load |-> 0, end_load |-> 0, start_gen |-> 0, end_prompt |-> 0,
                end_gen |-> 0, num_tokens_prompt |-> 0, num_tokens_response |-> 0]
    /\ gen = NoGenerator /\ cache = <<>> /\ y = 0 /\ hid = <<>> /\ logits = <<>>
    /\ runs = NoRun /\ fwd = NoForward

Init ==
    /\ pc = "main"
    /\ args \in [prompt : SeqsUpTo(Vocab, MaxPrompt), max_tokens : 0..MaxTokens,
                 write_every : 1..MaxWriteEvery, temp : Temps, seed : Seeds]
    /\ \/ config \in ScriptConfigs
       \/ config \in ScriptConfigsNoKv
    /\ tokenizer \in Tokenizers
    /\ model_args = None
    /\ key = 0
    /\ Idle

\* __main__: mx.random.seed(args.seed); model, tokenizer = load_model(...)
LoadModel ==
    /\ pc = "main"
    /\ key' = args.seed % KeyPeriod
    /\ model_args' = sanitize_config(config)
    /\ LET t0 == 1   \* the first reading of the clock; its origin does not matter
       IN \E t1 \in Later(t0) :
             stats' = [stats EXCEPT !.start_load = t0, !.end_load = t1]
    /\ pc' = "loaded"
    /\ UNCHANGED <<args, config, tokenizer, tokens, skip, printed, gen, cache,
                   y, hid, logits, runs, fwd>>

\* generate(): from its first line to the call model.generate(x, args.temp)
GenerateStart ==
    /\ pc = "loaded"
    /\ LET x == <<BosId>> \o args.prompt
       IN /\ \E t1 \in Later(stats.end_load) : \E t2 \in Later(t1) :
                \* stats.start_gen is set twice; the second reading stays
                stats' = [stats EXCEPT !.start_gen = t2, !.num_tokens_prompt = Len(x) - 1]
          /\ gen' = [pc |-> "created", x |-> x, temp |-> args.temp]
    /\ skip' = 0
    /\ tokens' = <<>>
    /\ pc' = "for"
    /\ UNCHANGED <<args, config, model_args, tokenizer, key, printed, cache, y, hid,
                   logits, runs, fwd>>

\* first next() on the generator: Llama.generate runs to its first yield
PromptIngestion ==
    /\ gen.pc = "created"
    /\ LET r == generate_prompt(gen.x, gen.temp, key, model_args)
       IN /\ cache' = r.cache
          /\ hid' = r.hid
          /\ logits' = r.logits
          /\ y' = r.y
    /\ key' = KeyAfterSample(gen.temp, key)
    /\ gen' = [gen EXCEPT !.pc = "suspended"]

\* a later next(): one pass of the while True loop
DecodeStep ==
    /\ gen.pc = "suspended"
    /\ LET r == generate_step(y, gen.temp, key, cache, model_args)
       IN /\ cache' = r.cache
          /\ hid' = r.hid
          /\ logits' = r.logits
          /\ y' = r.y
    /\ key' = KeyAfterSample(gen.temp, key)
    /\ UNCHANGED gen

ForPrompt ==
    /\ pc = "for"
    /\ PromptIngestion
    /\ pc' = "body"
    /\ UNCHANGED <<args, config, model_args, tokenizer, stats, tokens, skip, printed,
                   runs, fwd>>

ForDecode ==
    /\ pc = "for"
    /\ DecodeStep
    /\ pc' = "body"
    /\ UNCHANGED <<args, config, model_args, tokenizer, stats, tokens, skip, printed,
                   runs, fwd>>

\* generate(): the body of the for loop
LoopBody ==
    /\ pc = "body"
    /\ tokens' = Append(tokens, y)
    /\ IF Len(tokens') = 1
       THEN \E t \in Later(stats.start_gen) : stats' = [stats EXCEPT !.end_prompt = t]
       ELSE UNCHANGED stats
    /\ IF Len(tokens') >= args.max_tokens
       THEN /\ pc' = "after"
            /\ UNCHANGED <<skip, printed>>
       ELSE /\ pc' = "for"
            /\ IF Len(tokens') % args.write_every = 0
               THEN LET s == decode(tokenizer, tokens')
                    IN /\ printed' = Append(printed, Slice(s, skip))
                       /\ skip' = Len(s)
               ELSE UNCHANGED <<skip, printed>>
    /\ UNCHANGED <<args, config, model_args, tokenizer, key, gen, cache, y, hid,
                   logits, runs, fwd>>

\* generate(): after the loop
Finish ==
    /\ pc = "after"
    /\ LET s == decode(tokenizer, tokens)
       IN printed' = Append(printed, Slice(s, skip))
    /\ \E t \in Later(stats.end_prompt) :
          stats' = [stats EXCEPT !.end_gen = t, !.num_tokens_response = Len(tokens)]
    /\ pc' = "report"
    /\ UNCHANGED <<args, config, model_args, tokenizer, key, tokens, skip, gen, cache,
                   y, hid, logits, runs, fwd>>

\* the statistics block: the prompt line divides by num_tokens_prompt and by
\* end_prompt - start_gen, the eval line by num_tokens_response and by
\* end_gen - end_prompt; the load line divides by nothing
StatsReport(st) ==
    IF st.num_tokens_prompt = 0 THEN "ZeroDivisionError"
    ELSE IF st.end_prompt - st.start_gen = 0 THEN "ZeroDivisionError"
    ELSE IF st.num_tokens_response = 0 THEN "ZeroDivisionError"
    ELSE IF st.end_gen - st.end_prompt = 0 THEN "ZeroDivisionError"
    ELSE "exit"

\* __main__: print statistics
Report ==
    /\ pc = "report"
    /\ pc' = StatsReport(stats)
    /\ UNCHANGED <<args, config, model_args, tokenizer, key, stats, tokens, skip,
                   printed, gen, cache, y, hid, logits, runs, fwd>>

Next == LoadModel \/ GenerateStart \/ ForPrompt \/ ForDecode \/ LoopBody \/ Finish \/ Report

Spec == Init /\ [][Next]_vars

-----------------------------------------------------------------------------
(* A caller that uses the Llama object directly: model.generate(x, temp),   *)
(* next() on the generator, and model(x).                                   *)

NoArgs == [prompt |-> <<>>, max_tokens |-> 0, write_every |-> 1, temp |-> 0, seed |-> 0]

Inputs(n) == SeqsUpTo(Vocab, n) \ {<<>>}

RepeatConfigs ==
    {[n_layers |-> 1, n_heads |-> 1, n_kv_heads |-> 1],
     [n_layers |-> 2, n_heads |-> 2, n_kv_heads |-> 1]}

InitLoaded(cfgs) ==
    /\ pc = "lib"
    /\ args = NoArgs
    /\ config \in cfgs
    /\ model_args = sanitize_config(config)
    /\ tokenizer = "plain"
    /\ key \in 0..(KeyPeriod - 1)
    /\ Idle

InitModel == InitLoaded(ConfigsFull)

InitRepeat == InitLoaded(RepeatConfigs)

\* g = model.generate(x, temp), once
LibGenerate ==
    /\ pc = "lib"
    /\ gen.pc = "none"
    /\ \E x \in Inputs(MaxPrompt + 1), temp \in Temps :
          gen' = [pc |-> "created", x |-> x, temp |-> temp]
    /\ UNCHANGED <<pc, args, config, model_args, tokenizer, key, stats, tokens, skip,
                   printed, cache, y, hid, logits, runs, fwd>>

\* tokens.append(next(g)), first call
LibNextPrompt ==
    /\ pc = "lib"
    /\ Len(tokens) < MaxTokens
    /\ PromptIngestion
    /\ tokens' = Append(tokens, y')
    /\ UNCHANGED <<pc, args, config, model_args, tokenizer, stats, skip, printed, runs, fwd>>

\* tokens.append(next(g)), later calls
LibNextDecode ==
    /\ pc = "lib"
    /\ Len(tokens) < MaxTokens
    /\ DecodeStep
    /\ tokens' = Append(tokens, y')
    /\ UNCHANGED <<pc, args, config, model_args, tokenizer, stats, skip, printed, runs, fwd>>

\* out = model(x + tokens[:k]): the full forward pass over the session's input
\* followed by some of the tokens it has yielded
LibForward ==
    /\ pc = "lib"
    /\ gen.pc = "suspended"
    /\ \E k \in 0..Len(tokens) :
          LET x == gen.x \o SubSeq(tokens, 1, k)
          IN fwd' = [some |-> TRUE, x |-> x, out |-> Llama_call(x, model_args)]
    /\ UNCHANGED <<pc, args, config, model_args, tokenizer, key, stats, tokens, skip,
                   printed, gen, cache, y, hid, logits, runs>>

NextModel == LibGenerate \/ LibNextPrompt \/ LibNextDecode \/ LibForward

SpecModel == InitModel /\ [][NextModel]_vars

\* mx.random.seed(s)
RepSeed ==
    /\ pc = "lib"
    /\ \E s \in Seeds : key' = s % KeyPeriod
    /\ UNCHANGED <<pc, args, config, model_args, tokenizer, stats, tokens, skip,
                   printed, gen, cache, y, hid, logits, runs, fwd>>

\* g = model.generate(x, temp) again: the previous generator is dropped, and the
\* caller may keep the token list of the greedy session that just ended
RepGenerate ==
    /\ pc = "lib"
    /\ \E p \in SeqsUpTo(Vocab, MaxPrompt), temp \in Temps :
          gen' = [pc |-> "created", x |-> <<BosId>> \o p, temp |-> temp]
    /\ \/ runs' = runs
       \/ /\ gen.pc = "suspended"
          /\ gen.temp = 0
          /\ runs' = [some |-> TRUE, x |-> gen.x, tokens |-> tokens]
    /\ tokens' = <<>>
    /\ cache' = <<>> /\ y' = 0 /\ hid' = <<>> /\ logits' = <<>>
    /\ UNCHANGED <<pc, args, config, model_args, tokenizer, key, stats, skip, printed, fwd>>

NextRepeat == RepSeed \/ RepGenerate \/ LibNextPrompt \/ LibNextDecode

SpecRepeat == InitRepeat /\ [][NextRepeat]_vars

-----------------------------------------------------------------------------
(* Claims about the script *)

Returned == pc \in {"report", "exit", "ZeroDivisionError"}

\* C1: after generate(args, stats) the driver has consumed exactly max_tokens
\* token ids, stats.num_tokens_response is max_tokens, and
\* stats.num_tokens_prompt is the number of ids tokenizer.encode returned.
C1_ResponseCountIsMaxTokens ==
    Returned =>
        /\ Len(tokens) = args.max_tokens
        /\ stats.num_tokens_response = args.max_tokens
        /\ stats.num_tokens_prompt = Len(args.prompt)

\* C2: no run of generation followed by the statistics report reaches a
\* division by zero.
C2_NoDivisionByZero == pc # "ZeroDivisionError"

\* C3: the suffixes printed by generate(), concatenated in print order, are
\* tokenizer.decode of the full final token sequence.
C3_PrintedIsFullDecode ==
    Returned => Flatten(printed) = decode(tokenizer, tokens)

-----------------------------------------------------------------------------
(* Claims about Attention and the KV cache, on a session of a caller of the  *)
(* Llama object                                                            *)

Repeats == model_args.n_heads \div model_args.n_kv_heads

\* C6 as claimed: the head axis of every stored (keys, values) pair has size
\* n_kv_heads.
C6_HeadAxisIsKvHeads ==
    \A i \in 1..Len(cache) :
        /\ Len(cache[i].keys) = model_args.n_kv_heads
        /\ Len(cache[i].values) = model_args.n_kv_heads

\* C6 amended: the head axis of every stored (keys, values) pair has size
\* n_heads, the key/value heads after repetition; all heads of an entry have
\* the same sequence length.
C6_HeadAxisIsHeads ==
    \A i \in 1..Len(cache) :
        /\ Len(cache[i].keys) = model_args.n_heads
        /\ Len(cache[i].values) = model_args.n_heads
        /\ \A h \in 1..model_args.n_heads :
              /\ Len(cache[i].keys[h]) = Len(cache[i].keys[1])
              /\ Len(cache[i].values[h]) = Len(cache[i].keys[1])

C6_Witness ==
    /\ gen.pc = "suspended"
    /\ model_args.n_kv_heads < model_args.n_heads
    /\ Len(cache) = 2
    /\ Len(cache[2].keys[1]) > Len(gen.x)

\* every attention row inside a hidden state pairs query head h with
\* key/value head h div repeats
RECURSIVE GroupedRows(_)
GroupedRows(t) ==
    \/ "tok" \in DOMAIN t
    \/ /\ Len(t.r) = model_args.n_heads
       /\ \A h \in 1..Len(t.r) :
             /\ t.r[h].q.v.head = h - 1
             /\ t.r[h].kv # <<>>
             /\ \A j \in 1..Len(t.r[h].kv) :
                   /\ t.r[h].kv[j].k.v.head = (h - 1) \div Repeats
                   /\ t.r[h].kv[j].v.head = (h - 1) \div Repeats
       /\ GroupedRows(t.x)

\* C7: query head h attends using key/value head h div (n_heads / n_kv_heads);
\* each group of n_heads / n_kv_heads consecutive query heads uses one
\* key/value head and every key/value head serves exactly one such group.
C7_GroupedQueryRepetition ==
    gen.pc = "suspended" =>
        /\ \A t \in 1..Len(hid) : GroupedRows(hid[t])
        /\ \A i \in 1..Len(cache) : \A h \in 1..Len(cache[i].keys) :
              \A j \in 1..Len(cache[i].keys[h]) :
                  /\ cache[i].keys[h][j].v.head = (h - 1) \div Repeats
                  /\ cache[i].values[h][j].head = (h - 1) \div Repeats
        /\ \A g \in 0..(model_args.n_kv_heads - 1) :
              {h \in 0..(model_args.n_heads - 1) : cache[1].keys[h + 1][1].v.head = g}
                  = {g * Repeats + r : r \in 0..(Repeats - 1)}

C7_Witness ==
    /\ gen.pc = "suspended"
    /\ model_args.n_heads = 4
    /\ model_args.n_kv_heads = 2
    /\ Len(cache) = 2
    /\ Len(cache[1].keys[1]) > Len(gen.x)
    /\ cache[1].keys[2][1].v.head = 0
    /\ cache[1].keys[3][1].v.head = 1

\* decode steps the generator has run
DecodeCount == IF pc = "body" THEN Len(tokens) ELSE Len(tokens) - 1

\* the hidden state t sits at absolute position p: in every layer its query is
\* rotated by p, so is the key of the same step, and the keys it attends to
\* carry positions 0, 1, 2, ... in order
RECURSIVE RotatedAt(_, _)
RotatedAt(t, p) ==
    \/ "tok" \in DOMAIN t
    \/ /\ \A h \in 1..Len(t.r) :
             /\ t.r[h].q.rot = p
             /\ Len(t.r[h].kv) = p + 1
             /\ \A j \in 1..Len(t.r[h].kv) : t.r[h].kv[j].k.rot = j - 1
       /\ RotatedAt(t.x, p)

\* C8: in every layer and step queries and keys are rotated with offset equal to
\* the length of the layer's cached keys (0 for the prompt); the token of the
\* k-th decode step after a P-token input gets position P + k - 1; the
\* positions of a session are 0, 1, 2, ... without gap or repeat.
C8_RopeOffsets ==
    gen.pc = "suspended" =>
        /\ \A i \in 1..Len(cache) : \A h \in 1..Len(cache[i].keys) :
              /\ Len(cache[i].keys[h]) = Len(gen.x) + DecodeCount
              /\ \A j \in 1..Len(cache[i].keys[h]) : cache[i].keys[h][j].rot = j - 1
        /\ IF DecodeCount = 0
           THEN /\ Len(hid) = Len(gen.x)
                /\ \A t \in 1..Len(hid) : RotatedAt(hid[t], t - 1)
           ELSE /\ Len(hid) = 1
                /\ RotatedAt(hid[1], Len(gen.x) + DecodeCount - 1)

C8_Witness ==
    /\ gen.pc = "suspended"
    /\ Len(gen.x) = 3
    /\ DecodeCount = 2
    /\ Len(cache) = 2
    /\ hid[1].r[1].q.rot = 4

-----------------------------------------------------------------------------
(* Claims about the steps of Llama.generate *)

\* the token ids the first layer's keys were computed from, in cache order
KeySources(c) == [j \in 1..Len(c[1].keys[1]) |-> c[1].keys[1][j].v.x.tok]

\* in layer i and every layer below it, the hidden state t attended to exactly
\* the first n(i) positions of the layer's entry in c
RECURSIVE AttendsPrefix(_, _, _, _)
AttendsPrefix(t, c, i, n) ==
    \/ "tok" \in DOMAIN t
    \/ /\ i >= 1
       /\ \A h \in 1..Len(t.r) :
             /\ Len(t.r[h].kv) = n
             /\ n <= Len(c[i].keys[h])
             /\ \A j \in 1..n :
                   /\ t.r[h].kv[j].k = c[i].keys[h][j]
                   /\ t.r[h].kv[j].v = c[i].values[h][j]
       /\ AttendsPrefix(t.x, c, i - 1, n)

C10_PromptStep ==
    /\ gen.x = <<BosId>> \o args.prompt
    /\ pc = "for" /\ pc' = "body"
    /\ tokens = <<>>
    /\ Len(cache') = model_args.n_layers
    /\ KeySources(cache') = gen.x
    /\ Len(hid') = Len(gen.x)
    /\ \A t \in 1..Len(hid') : AttendsPrefix(hid'[t], cache', Len(cache'), t)
    /\ \A i \in 1..Len(cache') : \A h \in 1..Len(cache'[i].keys) :
          /\ Len(cache'[i].keys[h]) = Len(gen.x)
          /\ cache'[i].keys[h][1].rot = 0
    /\ y' = sample(logits', gen.temp, key)

C10_DecodeStep ==
    /\ pc = "for" /\ pc' = "body"
    /\ tokens # <<>>
    /\ y = tokens[Len(tokens)]
    /\ Len(cache') = Len(cache)
    /\ \A i \in 1..Len(cache) : \A h \in 1..Len(cache[i].keys) :
          /\ Len(cache'[i].keys[h]) = Len(cache[i].keys[h]) + 1
          /\ Len(cache'[i].values[h]) = Len(cache[i].values[h]) + 1
          /\ SubSeq(cache'[i].keys[h], 1, Len(cache[i].keys[h])) = cache[i].keys[h]
          /\ SubSeq(cache'[i].values[h], 1, Len(cache[i].values[h])) = cache[i].values[h]
    /\ KeySources(cache') = Append(KeySources(cache), y)
    /\ Len(hid') = 1
    /\ AttendsPrefix(hid'[1], cache', Len(cache'), Len(cache'[1].keys[1]))
    /\ y' = sample(logits', gen.temp, key)

\* C10: prompt-ingestion happens once, first, over bos + prompt ids with the
\* causal mask and no cache, and yields the first token; every later yield
\* follows exactly one decode step whose input is the token yielded just
\* before, run without mask on each layer's current cache entry, which it
\* replaces by the entry the layer returns; the generator never finishes and
\* never goes back to prompt-ingestion.
C10_StepOrdering ==
    [][/\ (gen.pc = "created" /\ gen'.pc # "created") => (gen'.pc = "suspended" /\ C10_PromptStep)
       /\ (gen.pc = "suspended") => gen'.pc = "suspended"
       /\ (gen.pc = "suspended" /\ (cache' # cache \/ y' # y \/ hid' # hid)) => C10_DecodeStep
       /\ (pc = "for" /\ pc' # "for") =>
             (pc' = "body" /\ cache' # cache /\ tokens' = tokens)
       /\ (tokens' # tokens /\ tokens # <<>>) => (pc = "body" /\ tokens' = Append(tokens, y))
      ]_vars

C10_Witness ==
    /\ pc = "body"
    /\ Len(tokens) = 2
    /\ Len(args.prompt) = 2
    /\ Len(cache) = 2
    /\ KeySources(cache) = <<BosId>> \o args.prompt \o tokens

-----------------------------------------------------------------------------
(* Claims checked on a caller of the Llama object *)

\* C5: the cache is empty when a generate call starts, holds one (keys, values)
\* entry per layer after prompt-ingestion over P tokens, and after k decode
\* steps every layer's keys and values have sequence length P + k; a decode
\* step appends one position to every entry and leaves the earlier ones as
\* they were.
C5_CacheLifecycle ==
    /\ [](gen.pc \in {"none", "created"} => cache = <<>>)
    /\ [](gen.pc = "suspended" =>
            /\ Len(cache) = model_args.n_layers
            /\ \A i \in 1..Len(cache) : \A h \in 1..Len(cache[i].keys) :
                  /\ Len(cache[i].keys[h]) = Len(gen.x) + Len(tokens) - 1
                  /\ Len(cache[i].values[h]) = Len(gen.x) + Len(tokens) - 1)
    /\ [][(gen.pc = "suspended" /\ gen'.pc = "suspended" /\ tokens' # tokens) =>
            /\ Len(cache') = Len(cache)
            /\ \A i \in 1..Len(cache) : \A h \in 1..Len(cache[i].keys) :
                  /\ SubSeq(cache'[i].keys[h], 1, Len(cache'[i].keys[h]) - 1) = cache[i].keys[h]
                  /\ SubSeq(cache'[i].values[h], 1, Len(cache'[i].values[h]) - 1) = cache[i].values[h]
         ]_vars

C5_Witness ==
    /\ runs.some
    /\ gen.pc = "suspended"
    /\ Len(gen.x) = 3
    /\ Len(tokens) = 3
    /\ Len(cache) = 2
    /\ Len(cache[2].values[2]) = 5

\* C9: with temp == 0 two generate calls from the same prompt on the same
\* weights yield the same token at every index, whatever the PRNG state and
\* whatever calls were made before.
C9_GreedyDeterminism ==
    (runs.some /\ gen.pc = "suspended" /\ gen.temp = 0 /\ runs.x = gen.x) =>
        \A i \in 1..Len(tokens) : i <= Len(runs.tokens) => tokens[i] = runs.tokens[i]

C9_Witness ==
    /\ runs.some /\ gen.pc = "suspended" /\ gen.temp = 0 /\ runs.x = gen.x
    /\ Len(gen.x) = 3
    /\ Len(tokens) = 3 /\ Len(runs.tokens) = 3
    /\ tokens[1] # tokens[3]

\* C4: the logits of full-forward mode at position L of an (L+1)-token input
\* are the logits of the first decode step after prompt-ingestion over the
\* first L tokens, when that step's input is token L+1: the same query
\* position, the same key/value positions 0..L, the same rotary positions.
C4_CacheEquivalence ==
    (fwd.some /\ gen.pc = "suspended" /\ Len(tokens) = 2 /\ fwd.x = Append(gen.x, tokens[1])) =>
        /\ fwd.out[Len(fwd.x)].hid = hid[Len(hid)]
        /\ fwd.out[Len(fwd.x)].logits = logits

C4_Witness ==
    /\ fwd.some /\ gen.pc = "suspended" /\ Len(tokens) = 2
    /\ fwd.x = Append(gen.x, tokens[1])
    /\ Len(gen.x) = 3
    /\ model_args.n_layers = 2
    /\ model_args.n_heads = 4
    /\ Len(hid[1].r[1].kv) = 4
    /\ hid[1].r[1].q.rot = 3

====
